---------------------------- MODULE Spec2Model ----------------------------
(***************************************************************************)
(* Khronos: a userspace clock disciplined by NTP samples through an        *)
(* adaptive Kalman filter.                                                 *)
(*                                                                         *)
(* The module holds three specifications over one set of variables:        *)
(*   SpecClock  the ProgramClock behind its mutex, statement by statement, *)
(*              called by the two threads that share it;                   *)
(*   SpecQuery  the arithmetic of one query_ntp exchange;                  *)
(*   Spec       the orchestrator (run, initial_sync, run_ui_loop,          *)
(*              handle_sync_message), the sampler thread and the channel   *)
(*              between them, with each clock call taken as one step       *)
(*              (which the mutex of SpecClock justifies).                  *)
(*                                                                         *)
(* Time is counted in ticks.  One tick stands for the resolution of        *)
(* chrono::Duration and of std::time::Instant (a nanosecond).              *)
(***************************************************************************)
EXTENDS Integers, Sequences, FiniteSets, TLC

(***************************************************************************)
(* Bounds of the model.                                                    *)
(***************************************************************************)
\* The monotonic clock (Instant) is observed from 0 up to MaxMono ticks.
MaxMono == 1
\* apply_offset is called with offsets of -MaxOffset .. MaxOffset ticks.
MaxOffset == 1
\* The clock harness performs at most MaxApply apply_offset calls.
MaxApply == 2

\* The sampler thread starts at most MaxIters iterations of its loop.
MaxIters == 2
\* initial_sync goes round its loop at most MaxInitTries times.
MaxInitTries == 2
\* A filter is followed through at most MaxUpdates calls of update.
MaxUpdates == 2

(***************************************************************************)
(* Program constants.                                                      *)
(***************************************************************************)
\* ProgramClock::new(): "2000-01-01T00:00:00Z", here in ticks after the Unix
\* epoch (scaled: the model's time line is a few ticks long).
InitialUtc == 8
\* Ticks in a second (ntp.rs:52, 1_000_000_000 nanoseconds), scaled.
TicksPerSec == 4
\* Units of the NTP fraction field in a second (ntp.rs:52 and 66,
\* 0x1_0000_0000): finer than a tick and no multiple of TicksPerSec, as 2^32
\* is of 10^9.  Scaled.
FracPerSec == 5
\* Seconds from 1900-01-01 to 1970-01-01 (ntp.rs:29, 2_208_988_800): a little
\* over half of the range of the seconds field.  Scaled.
NTP_UNIX_EPOCH_DIFF == 4
\* u32::MAX, the largest value of NtpTimestamp.seconds (ntp.rs:35).  Scaled:
\* the seconds field is three bits wide.
U32_MAX == 7
\* The steps of the sampler loop from a send to the next send: the query in
\* two steps, the draw of the interval, and the sleep up to the send
\* (ntp.rs:144-157).
MaxDrainSteps == 4
\* Bytes of an NTP packet (ntp.rs:28).
NTP_PACKET_SIZE == 48

\* NTP_SERVERS.len() (ntp.rs:13-26), scaled.
NumServers == 2
\* The longest sleep between two sampler iterations, in seconds (ntp.rs:145).
MaxSyncIntervalSecs == 2
\* The timeout perform_sync gives query_ntp, in milliseconds (ntp.rs:138).
SyncTimeoutMillis == 500
\* Ticks in a microsecond and microseconds in a second (app.rs:130 and 123),
\* scaled: their product is TicksPerSec.
NanosPerMicro == 2
MicrosPerSec == 2
\* 2^53 microseconds (app.rs:101), scaled: as in the program it is twice the
\* range of the NTP seconds field, (U32_MAX + 1) seconds.
MAX_SAFE_INTEGER_IN_F64 == 32
\* i64::MAX, the largest count num_microseconds returns (app.rs:130 and
\* 137).  Scaled: as in the program it lies between 2^53 microseconds and the
\* longest chrono::Duration.
I64MaxMicros == 256
\* The longest chrono::Duration, i64::MAX milliseconds, in seconds
\* (Duration::from_std, app.rs:148 and 151).  Scaled.
ChronoMaxSecs == 1024
\* The longest std Duration, u64::MAX seconds (Duration::from_secs_f64,
\* app.rs:148 and 151).  Scaled.
StdMaxSecs == 2048

VARIABLES
    mono,             \* the reading Instant::now() returns at this moment
    current_utc,      \* ProgramClock.current_utc
    last_updated_at,  \* ProgramClock.last_updated_at
    lock,             \* owner of the Mutex<ProgramClock>: "free" or a thread
    cpc,              \* SpecClock: each thread's position in its clock call
    cloc,             \* SpecClock: each thread's locals (elapsed, result, offset)
    cghost,           \* SpecClock: history kept for the properties
    qx,               \* SpecQuery: one exchange, its inputs and its result
    running,          \* Spec: the AtomicBool `running` of run()
    chan,             \* Spec: the messages queued in the mpsc channel
    rx_alive,         \* Spec: the Receiver has not been dropped
    opc,              \* Spec: the orchestrator's position in run()
    spc,              \* Spec: the sampler thread's position in its loop
    oloc,             \* Spec: the orchestrator's locals
    sloc,             \* Spec: the sampler's locals
    kf,               \* Spec: the KalmanFilter of run()
    hist              \* Spec: history kept for the properties

clockVars == <<current_utc, last_updated_at>>
harnessVars == <<lock, cpc, cloc, cghost>>
sysVars == <<running, chan, rx_alive, opc, spc, oloc, sloc, kf, hist>>
\* What the actions of SpecClock leave alone.
outsideClock == <<qx, sysVars>>
\* What the actions of SpecQuery leave alone.
outsideQuery == <<mono, clockVars, harnessVars, sysVars>>
\* What the actions of Spec leave alone.
outsideSys == <<harnessVars, qx>>
vars == <<mono, clockVars, harnessVars, qx, sysVars>>

Threads == {"sampler", "orch"}

\* The locals of a thread outside its clock call.
NoLocals == [elapsed |-> 0, ver_seen |-> 0, current_time |-> 0, offset |-> 0]

\* The variables of Spec in the specifications that do not run the program.
SysIdle ==
    /\ running = TRUE
    /\ chan = <<>>
    /\ rx_alive = FALSE
    /\ opc = "idle"
    /\ spc = "idle"
    /\ oloc = <<>>
    /\ sloc = <<>>
    /\ kf = <<>>
    /\ hist = <<>>

(***************************************************************************)
(* ProgramClock (program_clock.rs).                                        *)
(***************************************************************************)
\* Instant::elapsed(): the monotonic time since `anchor`, read at `m`.
Elapsed(anchor, m) == m - anchor

\* A now() that runs the elapsed time backwards.
NowFrom_Subtracting(utc, elapsed) == utc - elapsed

\* now(): current_utc + elapsed.
NowFrom(utc, elapsed) == utc + elapsed

\* now() as one step, at monotonic time m.
ClockNow(m) == NowFrom(current_utc, Elapsed(last_updated_at, m))

\* A guard bound to a name that lives on after the call: the caller leaves
\* the statement still owning the mutex.
GuardDropped_KeptByCaller(t) == t

\* The MutexGuard of `clock.lock().unwrap().now()` and of
\* `clock.lock().unwrap().apply_offset(d)` is a temporary of the statement
\* (ntp.rs:104, app.rs:77, 159 and 187): it is dropped, and the mutex is
\* free, before the caller's next statement.
GuardDropped(t) == "free"

\* A lock() that does not wait for the owner.
LockFree_NoExclusion == TRUE

\* Mutex::lock() returns only when no thread holds the mutex.
LockFree == lock = "free"

(***************************************************************************)
(* chrono::Duration and NtpTimestamp (ntp.rs).  A DateTime<Utc> is its      *)
(* number of ticks after the Unix epoch, a Duration a signed number of     *)
(* ticks, an NtpTimestamp a record [seconds, fraction].                    *)
(***************************************************************************)
Ok(v) == [ok |-> TRUE, val |-> v]
Err(e) == [ok |-> FALSE, err |-> e]

\* `Duration / 2` (ntp.rs:130): chrono divides seconds and nanoseconds
\* separately and carries, which rounds the tick count down.
DurationHalf(d) == d \div 2

\* NtpTimestamp::from_chrono_utc (ntp.rs:39-55).
FromChronoUtc(time) ==
    IF time < 0 THEN Err("before Unix epoch")
    ELSE LET secs == time \div TicksPerSec
             seconds == secs + NTP_UNIX_EPOCH_DIFF
             nanos == time % TicksPerSec
             fraction == (nanos * FracPerSec) \div TicksPerSec
         IN IF seconds > U32_MAX THEN Err("NTP seconds overflow")
            ELSE IF fraction > FracPerSec - 1 THEN Err("NTP fraction overflow")
            ELSE Ok([seconds |-> seconds, fraction |-> fraction])

\* A decoder that accepts a seconds field below the epoch difference.
ToSystemTime_NoEpochCheck(ts) ==
    LET unix_secs == ts.seconds - NTP_UNIX_EPOCH_DIFF
        nanos == (ts.fraction * TicksPerSec) \div FracPerSec
    IN Ok(unix_secs * TicksPerSec + nanos)

\* NtpTimestamp::to_system_time (ntp.rs:57-70), then `.into()` DateTime<Utc>.
ToSystemTime(ts) ==
    IF ts.seconds < NTP_UNIX_EPOCH_DIFF THEN Err("NTP time is earlier than Unix epoch")
    ELSE LET unix_secs == ts.seconds - NTP_UNIX_EPOCH_DIFF
             nanos == (ts.fraction * TicksPerSec) \div FracPerSec
         IN Ok(unix_secs * TicksPerSec + nanos)

\* u32::to_be_bytes and u32::from_be_bytes (ntp.rs:73-74 and 80-81): the four
\* bytes of a value, the most significant first.
ToBeBytes(v) ==
    <<(v \div 16777216) % 256, (v \div 65536) % 256, (v \div 256) % 256, v % 256>>

FromBeBytes(b) == ((b[1] * 256 + b[2]) * 256 + b[3]) * 256 + b[4]

\* NtpTimestamp::to_bytes (ntp.rs:78-83): seconds in bytes 0..4, fraction in
\* bytes 4..8.
ToBytes(ts) == ToBeBytes(ts.seconds) \o ToBeBytes(ts.fraction)

\* A decoder that reads each field with the least significant byte first.
FromBytes_LittleEndian(bytes) ==
    [seconds |-> FromBeBytes(<<bytes[4], bytes[3], bytes[2], bytes[1]>>),
     fraction |-> FromBeBytes(<<bytes[8], bytes[7], bytes[6], bytes[5]>>)]

\* NtpTimestamp::from_bytes (ntp.rs:72-76).
FromBytes(bytes) ==
    [seconds |-> FromBeBytes(<<bytes[1], bytes[2], bytes[3], bytes[4]>>),
     fraction |-> FromBeBytes(<<bytes[5], bytes[6], bytes[7], bytes[8]>>)]

\* ntp::NtpTimestamp::from_chrono_utc of the crate root (main.rs:211-221): the
\* sum is not checked and `seconds as u32` keeps its low 32 bits.
MainFromChronoUtc(time) ==
    IF time < 0 THEN Err("before Unix epoch")
    ELSE LET secs == time \div TicksPerSec
             seconds == secs + NTP_UNIX_EPOCH_DIFF
             nanos == time % TicksPerSec
             fraction == ((nanos * FracPerSec) \div TicksPerSec) % (U32_MAX + 1)
         IN Ok([seconds |-> seconds % (U32_MAX + 1), fraction |-> fraction])

\* An offset computed with its last term the wrong way round.
OffsetDelay_T4MinusT3(t1, t2, t3, t4) ==
    [offset |-> DurationHalf((t2 - t1) + (t4 - t3)),
     delay |-> (t4 - t1) - (t3 - t2)]

\* ntp.rs:130-131: offset and delay from the four timestamps.
OffsetDelay(t1, t2, t3, t4) ==
    [offset |-> DurationHalf((t2 - t1) + (t3 - t4)),
     delay |-> (t4 - t1) - (t3 - t2)]

\* A query that decodes whatever it received, whatever its length.
QueryFinish_NoLengthCheck(t1, send_instant, recv_instant, n, buf_t2, buf_t3) ==
    LET round_trip_duration == recv_instant - send_instant
        t4 == t1 + round_trip_duration
        t2_systime == ToSystemTime(buf_t2)
        t3_systime == ToSystemTime(buf_t3)
    IN IF ~t2_systime.ok THEN t2_systime
       ELSE IF ~t3_systime.ok THEN t3_systime
       ELSE Ok(OffsetDelay(t1, t2_systime.val, t3_systime.val, t4))

\* query_ntp from the received datagram on (ntp.rs:112-132): n bytes were
\* received, buf_t2 and buf_t3 are the timestamps at RECV_TS_OFFSET and
\* TX_TS_OFFSET of the buffer.
QueryFinish(t1, send_instant, recv_instant, n, buf_t2, buf_t3) ==
    IF n < NTP_PACKET_SIZE THEN Err("NTP response is too short")
    ELSE LET round_trip_duration == recv_instant - send_instant
             t4 == t1 + round_trip_duration
             t2_systime == ToSystemTime(buf_t2)
             t3_systime == ToSystemTime(buf_t3)
         IN IF ~t2_systime.ok THEN t2_systime
            ELSE IF ~t3_systime.ok THEN t3_systime
            ELSE Ok(OffsetDelay(t1, t2_systime.val, t3_systime.val, t4))

\* The timestamps a server can put in a response: any seconds and fraction.
NtpTimestamps == [seconds : 0..U32_MAX, fraction : 0..(FracPerSec - 1)]

(***************************************************************************)
(* f64.  A finite value is the exact rational [n, d] in lowest terms with  *)
(* d > 0: the rounding of f64 is left out.  A value that is not finite     *)
(* (an infinity or a NaN) is NonFinite, and every operation on it gives    *)
(* NonFinite again, as the operations below do in f64.                     *)
(***************************************************************************)
Abs(x) == IF x < 0 THEN -x ELSE x

RECURSIVE GCD(_, _)
GCD(a, b) == IF b = 0 THEN a ELSE GCD(b, a % b)

NonFinite == [n |-> 0, d |-> 0]
IsFinite(a) == a.d # 0

\* The value n / d; x / 0.0 is an infinity or a NaN.
Rat(n, d) ==
    IF d = 0 THEN NonFinite
    ELSE CHOOSE result \in {
             IF d < 0 THEN [n |-> (-n) \div g, d |-> (-d) \div g]
             ELSE [n |-> n \div g, d |-> d \div g]
         : g \in {GCD(Abs(n), Abs(d))}} : TRUE

F64(i) == [n |-> i, d |-> 1]

\* In the operators below a value that is used more than once is first
\* computed and named, as by a `let` of the program:
\*     CHOOSE result \in {expression of name : name \in {value}} : TRUE
\* The sum is taken over the least common denominator.
F64Add(a, b) ==
    CHOOSE result \in {
        IF ~IsFinite(x) \/ ~IsFinite(y) THEN NonFinite
        ELSE CHOOSE sum \in {
                 Rat(x.n * (y.d \div g) + y.n * (x.d \div g), (x.d \div g) * y.d)
             : g \in {GCD(x.d, y.d)}} : TRUE
    : x \in {a}, y \in {b}} : TRUE

F64Neg(a) ==
    CHOOSE result \in {
        IF ~IsFinite(x) THEN NonFinite ELSE [n |-> -x.n, d |-> x.d]
    : x \in {a}} : TRUE

F64Sub(a, b) == F64Add(a, F64Neg(b))

\* The product of x and y, finite, each in lowest terms: the common factors
\* are taken out before the multiplications.
RatMul(x, y) ==
    CHOOSE product \in {
        Rat((x.n \div g1) * (y.n \div g2), (x.d \div g2) * (y.d \div g1))
    : g1 \in {GCD(Abs(x.n), y.d)}, g2 \in {GCD(Abs(y.n), x.d)}} : TRUE

F64Mul(a, b) ==
    CHOOSE result \in {
        IF ~IsFinite(x) \/ ~IsFinite(y) THEN NonFinite
        ELSE RatMul(x, y)
    : x \in {a}, y \in {b}} : TRUE

F64Div(a, b) ==
    CHOOSE result \in {
        IF ~IsFinite(x) \/ ~IsFinite(y) \/ y.n = 0 THEN NonFinite
        ELSE RatMul(x, Rat(y.d, y.n))
    : x \in {a}, y \in {b}} : TRUE

\* f64::mul_add: a * b + c.
MulAdd(a, b, c) == F64Add(F64Mul(a, b), c)

\* a < b of two finite values, compared over the least common denominator;
\* a comparison with a NaN is false.
F64Less(a, b) ==
    CHOOSE result \in {
        /\ IsFinite(x) /\ IsFinite(y)
        /\ CHOOSE less \in {
               x.n * (y.d \div g) < y.n * (x.d \div g)
           : g \in {GCD(x.d, y.d)}} : TRUE
    : x \in {a}, y \in {b}} : TRUE

\* f64::exp.  Only exp(0.0) = 1.0 has a rational value; elsewhere the value
\* is replaced by a rational one that has what the filter draws on from exp:
\* it is positive, increasing, above 1 for a positive argument and below 1
\* for a negative one, and the values at x and -x are reciprocal.
F64Exp(a) ==
    CHOOSE result \in {
        CASE ~IsFinite(x) -> NonFinite
          [] x.n = 0 -> F64(1)
          [] x.n > 0 -> F64Add(F64(1), x)
          [] x.n < 0 -> F64Div(F64(1), F64Sub(F64(1), x))
    : x \in {a}} : TRUE

(***************************************************************************)
(* KalmanFilter (kalman_filter.rs).  Vectors and matrices are tuples,      *)
(* indexed from 1.                                                         *)
(***************************************************************************)
\* A KalmanConfig that validate() accepts (config.rs:50-82).
KalmanConfig ==
    [initial_process_noise_q |-> F64(1),
     delay_to_r_factor |-> F64(1),
     initial_uncertainty |-> F64(1),
     adaptation_rate_eta |-> F64(0),
     nis_ema_alpha |-> Rat(1, 2)]

\* KalmanFilter::new (kalman_filter.rs:12-28), at monotonic time m.
KalmanNew(initial_offset, initial_uncertainty, initial_process_noise_q, adaptation_rate_eta, nis_ema_alpha, m) ==
    [x_hat |-> <<initial_offset, F64(0)>>,
     p_matrix |-> <<<<initial_uncertainty, F64(0)>>, <<F64(0), initial_uncertainty>>>>,
     process_noise_q |-> initial_process_noise_q,
     last_timestamp |-> m,
     nis_ema |-> F64(1),
     adaptation_rate_eta |-> adaptation_rate_eta,
     nis_ema_alpha |-> nis_ema_alpha]

\* predict (kalman_filter.rs:30-65).  The values are named in the order of
\* the program from the last line of the definition upwards.
Predict(self, dt) ==
    CHOOSE result \in {
    CHOOSE result \in {
    CHOOSE result \in {
    CHOOSE result \in {
    CHOOSE result \in {
    CHOOSE result \in {
    CHOOSE result \in {
    CHOOSE result \in {
    CHOOSE result \in {
        [x |-> x_hat_predicted, p |-> p_predicted]
    : p_predicted \in {<<<<F64Add(fpf_t[1][1], q_matrix[1][1]), F64Add(fpf_t[1][2], q_matrix[1][2])>>,
                         <<F64Add(fpf_t[2][1], q_matrix[2][1]), F64Add(fpf_t[2][2], q_matrix[2][2])>>>>}} : TRUE
    : fpf_t \in {<<<<MulAdd(fp[1][1], f_matrix[1][1], F64Mul(fp[1][2], f_matrix[1][2])),
                     MulAdd(fp[1][1], f_matrix[2][1], F64Mul(fp[1][2], f_matrix[2][2]))>>,
                   <<MulAdd(fp[2][1], f_matrix[1][1], F64Mul(fp[2][2], f_matrix[1][2])),
                     MulAdd(fp[2][1], f_matrix[2][1], F64Mul(fp[2][2], f_matrix[2][2]))>>>>}} : TRUE
    : fp \in {<<<<MulAdd(f_matrix[1][1], self.p_matrix[1][1], F64Mul(f_matrix[1][2], self.p_matrix[2][1])),
                  MulAdd(f_matrix[1][1], self.p_matrix[1][2], F64Mul(f_matrix[1][2], self.p_matrix[2][2]))>>,
                <<MulAdd(f_matrix[2][1], self.p_matrix[1][1], F64Mul(f_matrix[2][2], self.p_matrix[2][1])),
                  MulAdd(f_matrix[2][1], self.p_matrix[1][2], F64Mul(f_matrix[2][2], self.p_matrix[2][2]))>>>>}} : TRUE
    : x_hat_predicted \in {<<MulAdd(self.x_hat[1], f_matrix[1][1], F64Mul(self.x_hat[2], f_matrix[1][2])),
                             MulAdd(self.x_hat[1], f_matrix[2][1], F64Mul(self.x_hat[2], f_matrix[2][2]))>>}} : TRUE
    : q_matrix \in {<<<<F64Mul(F64Div(dt3, F64(3)), q), F64Mul(F64Div(dt2, F64(2)), q)>>,
                      <<F64Mul(F64Div(dt2, F64(2)), q), F64Mul(dt, q)>>>>}} : TRUE
    : dt3 \in {F64Mul(dt2, dt)}} : TRUE
    : dt2 \in {F64Mul(dt, dt)}} : TRUE
    : q \in {self.process_noise_q}} : TRUE
    : f_matrix \in {<<<<F64(1), dt>>, <<F64(0), F64(1)>>>>}} : TRUE

\* correct (kalman_filter.rs:67-109): the filter after the correction.
Correct(self, measurement, measurement_noise_r, x_hat_predicted, p_predicted) ==
    CHOOSE result \in {
    CHOOSE result \in {
    CHOOSE result \in {
    CHOOSE result \in {
    CHOOSE result \in {
    CHOOSE result \in {
    CHOOSE result \in {
    CHOOSE result \in {
    CHOOSE result \in {
    CHOOSE result \in {
    CHOOSE result \in {
    CHOOSE result \in {
        [self EXCEPT
           !.x_hat = <<MulAdd(k_gain[1], y, x_hat_predicted[1]),
                       MulAdd(k_gain[2], y, x_hat_predicted[2])>>,
           !.p_matrix =
               <<<<MulAdd(ikh[1][1], p_predicted[1][1], F64Mul(ikh[1][2], p_predicted[2][1])),
                   MulAdd(ikh[1][1], p_predicted[1][2], F64Mul(ikh[1][2], p_predicted[2][2]))>>,
                 <<MulAdd(ikh[2][1], p_predicted[1][1], F64Mul(ikh[2][2], p_predicted[2][1])),
                   MulAdd(ikh[2][1], p_predicted[1][2], F64Mul(ikh[2][2], p_predicted[2][2]))>>>>,
           !.nis_ema = nis_ema,
           !.process_noise_q = F64Mul(self.process_noise_q, factor)]
    : factor \in {F64Exp(F64Mul(self.adaptation_rate_eta, F64Sub(nis_ema, F64(1))))}} : TRUE
    : nis_ema \in {MulAdd(F64Sub(F64(1), self.nis_ema_alpha), self.nis_ema,
                          F64Mul(self.nis_ema_alpha, nis))}} : TRUE
    : nis \in {F64Div(F64Mul(y, y), s)}} : TRUE
    : ikh \in {<<<<F64Sub(F64(1), kh[1][1]), F64Neg(kh[1][2])>>,
                 <<F64Neg(kh[2][1]), F64Sub(F64(1), kh[2][2])>>>>}} : TRUE
    : kh \in {<<<<F64Mul(k_gain[1], h_matrix[1]), F64Mul(k_gain[1], h_matrix[2])>>,
                <<F64Mul(k_gain[2], h_matrix[1]), F64Mul(k_gain[2], h_matrix[2])>>>>}} : TRUE
    : k_gain \in {<<F64Div(ph_t[1], s), F64Div(ph_t[2], s)>>}} : TRUE
    : ph_t \in {<<MulAdd(p_predicted[1][1], h_matrix[1], F64Mul(p_predicted[1][2], h_matrix[2])),
                  MulAdd(p_predicted[2][1], h_matrix[1], F64Mul(p_predicted[2][2], h_matrix[2]))>>}} : TRUE
    : s \in {F64Add(hph_t, measurement_noise_r)}} : TRUE
    : hph_t \in {MulAdd(hp[1], h_matrix[1], F64Mul(hp[2], h_matrix[2]))}} : TRUE
    : hp \in {<<MulAdd(h_matrix[1], p_predicted[1][1], F64Mul(h_matrix[2], p_predicted[2][1])),
                MulAdd(h_matrix[1], p_predicted[1][2], F64Mul(h_matrix[2], p_predicted[2][2]))>>}} : TRUE
    : y \in {F64Sub(measurement, MulAdd(h_matrix[1], x_hat_predicted[1],
                                        F64Mul(h_matrix[2], x_hat_predicted[2])))}} : TRUE
    : h_matrix \in {<<F64(1), F64(0)>>}} : TRUE

\* update (kalman_filter.rs:111-122) at monotonic time m: the filter after
\* the update; the value returned is its x_hat[1].
KalmanUpdate(self, measurement, measurement_noise_r, m) ==
    CHOOSE result \in {
    CHOOSE result \in {
    CHOOSE result \in {
        Correct(stamped, measurement, measurement_noise_r, predicted.x, predicted.p)
    : predicted \in {Predict(stamped, dt)}} : TRUE
    : stamped \in {[self EXCEPT !.last_timestamp = m]}} : TRUE
    : dt \in {Rat(Elapsed(self.last_timestamp, m), TicksPerSec)}} : TRUE

(***************************************************************************)
(* SpecFilter: a filter built from a configuration that validate() accepts *)
(* is given a sequence of updates, each with any of a few measurements,    *)
(* measurement noises and time steps.  qx holds the filter before the last *)
(* update and the number of updates made.                                  *)
(***************************************************************************)
\* The values of adaptation_rate_eta and of nis_ema_alpha: the two ends of
\* the range validate() accepts (config.rs:69 and 75) and a value inside.
UnitRange == {F64(0), Rat(1, 2), F64(1)}

\* The configurations of the filter: validate() (config.rs:50-82) accepts
\* each of them.
KalmanConfigs ==
    [initial_process_noise_q : {F64(1)},
     delay_to_r_factor : {F64(1)},
     initial_uncertainty : {F64(1)},
     adaptation_rate_eta : UnitRange,
     nis_ema_alpha : UnitRange]

\* The measurements, the measurement noises (R >= 0) and the time steps in
\* ticks (dt >= 0) of an update: two updates are up to MaxMono seconds apart.
Measurements == {F64(-1), F64(0), F64(2)}
MeasurementNoises == {F64(0), F64(1)}
TimeSteps == {s * TicksPerSec : s \in 0..MaxMono}

InitFilter ==
    /\ mono = 0
    /\ current_utc = InitialUtc
    /\ last_updated_at = 0
    /\ lock = "free"
    /\ cpc = [t \in Threads |-> "idle"]
    /\ cloc = [t \in Threads |-> NoLocals]
    /\ cghost = <<>>
    /\ running = TRUE
    /\ chan = <<>>
    /\ rx_alive = FALSE
    /\ opc = "idle"
    /\ spc = "idle"
    /\ oloc = <<>>
    /\ sloc = <<>>
    /\ hist = <<>>
    /\ \E c \in KalmanConfigs :
          kf = KalmanNew(F64(0), c.initial_uncertainty, c.initial_process_noise_q,
                         c.adaptation_rate_eta, c.nis_ema_alpha, 0)
    /\ qx = [updates |-> 0, before |-> <<>>, z |-> F64(0), r |-> F64(0)]

\* One call of update (kalman_filter.rs:111-122), dt ticks after the last.
FilterUpdate ==
    /\ qx.updates < MaxUpdates
    /\ \E z \in Measurements, r \in MeasurementNoises, dt \in TimeSteps :
          /\ mono' = mono + dt
          /\ kf' = KalmanUpdate(kf, z, r, mono + dt)
          /\ qx' = [updates |-> qx.updates + 1, before |-> kf, z |-> z, r |-> r]
    /\ UNCHANGED <<clockVars, harnessVars, running, chan, rx_alive, opc, spc,
                   oloc, sloc, hist>>

NextFilter == FilterUpdate

SpecFilter == InitFilter /\ [][NextFilter]_vars

(***************************************************************************)
(* SpecQuery: one exchange of query_ntp for every T1 the clock can show,   *)
(* every round trip and every response.                                    *)
(***************************************************************************)
\* T1 ranges over every time the seconds field can carry, and one tick
\* on either side.
QueryT1s == (-1)..((U32_MAX - NTP_UNIX_EPOCH_DIFF + 1) * TicksPerSec)

InitQuery ==
    /\ mono = 0
    /\ current_utc = InitialUtc
    /\ last_updated_at = 0
    /\ lock = "free"
    /\ cpc = [t \in Threads |-> "idle"]
    /\ cloc = [t \in Threads |-> NoLocals]
    /\ cghost = <<>>
    /\ SysIdle
    /\ qx \in [t1 : QueryT1s, round_trip : 0..MaxMono,
                n : {NTP_PACKET_SIZE - 1, NTP_PACKET_SIZE},
                t2 : NtpTimestamps, t3 : NtpTimestamps,
                req : {<<>>}, res : {<<>>}]

\* query_ntp from the encoding of T1 on (ntp.rs:105-132): the bytes of t1_ntp
\* go into the request at TX_TS_OFFSET; the response holds the bytes of the
\* server's two timestamps, which from_bytes reads back.
Exchange(t1_ntp) ==
    IF ~t1_ntp.ok THEN [qx EXCEPT !.res = t1_ntp]
    ELSE [qx EXCEPT !.req = ToBytes(t1_ntp.val),
                    !.res = QueryFinish(qx.t1, 0, qx.round_trip, qx.n,
                                        FromBytes(ToBytes(qx.t2)),
                                        FromBytes(ToBytes(qx.t3)))]

\* The exchange of ntp.rs: T1 is encoded and sent, the response is decoded.
RunQuery ==
    /\ qx.res = <<>>
    /\ qx' = Exchange(FromChronoUtc(qx.t1))
    /\ UNCHANGED outsideQuery

\* The exchange of the crate root (main.rs:257-290), which differs in the
\* encoding of T1 only.
RunQueryMain ==
    /\ qx.res = <<>>
    /\ qx' = Exchange(MainFromChronoUtc(qx.t1))
    /\ UNCHANGED outsideQuery

NextQuery == RunQuery \/ RunQueryMain

SpecQuery == InitQuery /\ [][NextQuery]_vars

(***************************************************************************)
(* SpecClock: the two threads call now() and apply_offset() through the    *)
(* mutex; every statement of program_clock.rs is a step, and the monotonic *)
(* clock may advance between any two steps.                                *)
(***************************************************************************)
ClockOffsets == (-MaxOffset)..MaxOffset

InitClock ==
    /\ mono = 0
    /\ current_utc = InitialUtc
    /\ last_updated_at = 0
    /\ lock = "free"
    /\ cpc = [t \in Threads |-> "idle"]
    /\ cloc = [t \in Threads |-> NoLocals]
    /\ cghost = [reads |-> <<>>,       \* <<largest earlier reading, latest reading>>
                 floor |-> InitialUtc, \* latest reading plus the negative offsets since
                 utc_writes |-> 0,     \* writes of current_utc so far
                 anchor_writes |-> 0,  \* writes of last_updated_at so far
                 floor_was |-> InitialUtc, \* floor when the latest now() returned
                 applies |-> 0,        \* apply_offset calls so far
                 applied |-> <<>>,     \* last apply_offset: <<now() at t, d, t>>
                 after |-> <<>>]       \* first now() after it: <<reading, time>>
    /\ qx = <<>>
    /\ SysIdle

\* The monotonic clock advances.
Tick ==
    /\ mono < MaxMono
    /\ mono' = mono + 1
    /\ UNCHANGED <<current_utc, last_updated_at, lock, cpc, cloc, cghost, outsideClock>>

\* A thread starts `clock.lock().unwrap().now()`:
\* the sampler for T1 (ntp.rs:104), the orchestrator for the display (app.rs:187).
CallNow(t) ==
    /\ cpc[t] = "idle"
    /\ cpc' = [cpc EXCEPT ![t] = "lock_now"]
    /\ UNCHANGED <<mono, current_utc, last_updated_at, lock, cloc, cghost, outsideClock>>

\* The orchestrator starts `clock.lock().unwrap().apply_offset(d)`
\* (app.rs:77 and app.rs:159).
CallApply(d) ==
    /\ cpc["orch"] = "idle"
    /\ cghost.applies < MaxApply
    /\ cpc' = [cpc EXCEPT !["orch"] = "lock_apply"]
    /\ cloc' = [cloc EXCEPT !["orch"].offset = d]
    /\ cghost' = [cghost EXCEPT !.applies = @ + 1]
    /\ UNCHANGED <<mono, current_utc, last_updated_at, lock, outsideClock>>

\* Mutex::lock() succeeds.
Acquire(t) ==
    /\ cpc[t] \in {"lock_now", "lock_apply"}
    /\ LockFree
    /\ lock' = t
    /\ cpc' = [cpc EXCEPT ![t] = IF cpc[t] = "lock_now" THEN "now_17" ELSE "apply_17"]
    /\ UNCHANGED <<mono, current_utc, last_updated_at, cloc, cghost, outsideClock>>

\* program_clock.rs:17, `self.last_updated_at.elapsed()`.
ReadElapsed(t) ==
    /\ cpc[t] \in {"now_17", "apply_17"}
    /\ cloc' = [cloc EXCEPT ![t].elapsed = Elapsed(last_updated_at, mono),
                            ![t].ver_seen = cghost.anchor_writes]
    /\ cpc' = [cpc EXCEPT ![t] = IF cpc[t] = "now_17" THEN "now_18" ELSE "apply_18"]
    /\ UNCHANGED <<mono, current_utc, last_updated_at, lock, cghost, outsideClock>>

\* The history after a now() returned r for the monotonic reading m.
Observe(g, r, m) ==
    [g EXCEPT !.reads = IF @ = <<>> THEN <<r, r>>
                        ELSE <<IF @[2] > @[1] THEN @[2] ELSE @[1], r>>,
              !.floor = r,
              !.floor_was = g.floor,
              !.after = IF g.applied # <<>> /\ @ = <<>> THEN <<r, m>> ELSE @]

\* program_clock.rs:18, `self.current_utc + elapsed`, returned to the caller
\* of now(); the guard is dropped with the statement.
ReturnNow(t) ==
    /\ cpc[t] = "now_18"
    /\ LET r == NowFrom(current_utc, cloc[t].elapsed)
           g == Observe(cghost, r, last_updated_at + cloc[t].elapsed)
       IN cghost' = g
    /\ cloc' = [cloc EXCEPT ![t] = NoLocals]
    /\ cpc' = [cpc EXCEPT ![t] = "idle"]
    /\ lock' = GuardDropped(t)
    /\ UNCHANGED <<mono, current_utc, last_updated_at, outsideClock>>

\* program_clock.rs:22, `let current_time = self.now()` inside apply_offset.
ApplyReadNow ==
    /\ cpc["orch"] = "apply_18"
    /\ cloc' = [cloc EXCEPT !["orch"].current_time =
                                NowFrom(current_utc, cloc["orch"].elapsed)]
    /\ cpc' = [cpc EXCEPT !["orch"] = "apply_23"]
    /\ UNCHANGED <<mono, current_utc, last_updated_at, lock, cghost, outsideClock>>

\* program_clock.rs:23, `self.current_utc = current_time + offset`.
ApplySetUtc ==
    /\ cpc["orch"] = "apply_23"
    /\ current_utc' = cloc["orch"].current_time + cloc["orch"].offset
    /\ cpc' = [cpc EXCEPT !["orch"] = "apply_24"]
    /\ cghost' = [cghost EXCEPT
                    !.floor = IF cloc["orch"].offset < 0
                              THEN @ + cloc["orch"].offset ELSE @,
                    !.utc_writes = @ + 1,
                    !.applied = <<cloc["orch"].current_time, cloc["orch"].offset,
                                  last_updated_at + cloc["orch"].elapsed>>,
                    !.after = <<>>]
    /\ UNCHANGED <<mono, last_updated_at, lock, cloc, outsideClock>>

\* program_clock.rs:24, `self.last_updated_at = Instant::now()`; apply_offset
\* returns and the guard is dropped.
ApplySetAnchor ==
    /\ cpc["orch"] = "apply_24"
    /\ last_updated_at' = mono
    /\ cloc' = [cloc EXCEPT !["orch"] = NoLocals]
    /\ cpc' = [cpc EXCEPT !["orch"] = "idle"]
    /\ lock' = GuardDropped("orch")
    /\ cghost' = [cghost EXCEPT !.anchor_writes = @ + 1]
    /\ UNCHANGED <<mono, current_utc, outsideClock>>

NextClock ==
    \/ Tick
    \/ \E t \in Threads : CallNow(t)
    \/ \E d \in ClockOffsets : CallApply(d)
    \/ \E t \in Threads : Acquire(t)
    \/ \E t \in Threads : ReadElapsed(t)
    \/ \E t \in Threads : ReturnNow(t)
    \/ ApplyReadNow
    \/ ApplySetUtc
    \/ ApplySetAnchor

SpecClock == InitClock /\ [][NextClock]_vars

\* The steps of thread t in its clock call.
ClockStep(t) ==
    \/ CallNow(t)
    \/ Acquire(t)
    \/ ReadElapsed(t)
    \/ ReturnNow(t)
    \/ t = "orch" /\ (ApplyReadNow \/ ApplySetUtc \/ ApplySetAnchor)

\* The positions of a thread inside now() or apply_offset(), the mutex held.
InsideClock == {"now_17", "now_18", "apply_17", "apply_18", "apply_23", "apply_24"}

(***************************************************************************)
(* handle_sync_message (app.rs).                                           *)
(***************************************************************************)
\* chrono::Duration::num_microseconds (app.rs:130 and 137): the count of
\* whole microseconds, towards zero, or None if it does not fit an i64.
NumMicroseconds(d) ==
    LET micros == IF d >= 0 THEN d \div NanosPerMicro ELSE -((-d) \div NanosPerMicro)
    IN IF Abs(micros) > I64MaxMicros THEN Err("None") ELSE Ok(micros)

\* A conversion that divides whatever count it is given.
MicrosToSecs_NoRangeCheck(micros) == Ok(Rat(micros, MicrosPerSec))

\* micros_to_secs (app.rs:100-129).  The two u32 halves of a value that
\* passed the first test always fit.
MicrosToSecs(micros) ==
    IF Abs(micros) > MAX_SAFE_INTEGER_IN_F64
    THEN Err("out of the integers f64 represents exactly")
    ELSE Ok(Rat(micros, MicrosPerSec))

\* app.rs:130-136 and 137-144: a Duration of a sample in seconds, or the
\* error of num_microseconds or of micros_to_secs.
DurationToSecs(d) ==
    CHOOSE result \in {
        IF ~micros.ok THEN Err("out of the range of microseconds")
        ELSE MicrosToSecs(micros.val)
    : micros \in {NumMicroseconds(d)}} : TRUE

\* n / d rounded to the nearest integer, a tie to the even one.
RoundHalfEven(n, d) ==
    LET q == n \div d
        r == n % d
    IN IF 2 * r < d THEN q
       ELSE IF 2 * r > d THEN q + 1
       ELSE IF q % 2 = 0 THEN q ELSE q + 1

\* app.rs:147-158: the smoothed offset as a chrono::Duration, in ticks.
\* Duration::from_secs_f64 panics on a value that is not finite or too
\* large, chrono::Duration::from_std returns an error on a Duration longer
\* than chrono's.
SmoothedToDuration(smoothed_offset_secs) ==
    IF ~IsFinite(smoothed_offset_secs) THEN [ok |-> FALSE, err |-> "panic"]
    ELSE LET negative == F64Less(smoothed_offset_secs, F64(0))
             n == Abs(smoothed_offset_secs.n)
             d == smoothed_offset_secs.d
         IN IF n > StdMaxSecs * d THEN [ok |-> FALSE, err |-> "panic"]
            ELSE IF n > ChronoMaxSecs * d THEN Err("out of range of chrono::Duration")
            ELSE LET ticks == RoundHalfEven(n * TicksPerSec, d)
                 IN Ok(IF negative THEN -ticks ELSE ticks)

\* A handler that corrects the clock by the offset it measured.
OffsetToApply_Measured(measured_offset, smoothed_offset) == measured_offset

\* app.rs:159: apply_offset is given the smoothed offset, the value that
\* update returned, as a Duration.
OffsetToApply(measured_offset, smoothed_offset) == smoothed_offset

\* handle_sync_message (app.rs:84-177) at monotonic time m, stdout working
\* or not: how the call ends ("ok", "stdout": an error of the terminal,
\* "sample": an error of the sample, "panic"), the filter it leaves, and
\* the offset it applies to the clock, if any.
HandleSyncMessage(message, self, m, io_ok) ==
    IF message.type = "Syncing"
    THEN [end |-> IF io_ok THEN "ok" ELSE "stdout", kf |-> self, apply |-> FALSE, offset |-> 0]
    ELSE
    CHOOSE result \in {
    CHOOSE result \in {
        IF ~measured_offset_secs.ok \/ ~measured_delay_secs.ok
        THEN [end |-> "sample", kf |-> self, apply |-> FALSE, offset |-> 0]
        ELSE
             CHOOSE result \in {
             CHOOSE result \in {
             CHOOSE result \in {
                 IF ~smoothed_offset.ok
                 THEN [end |-> IF smoothed_offset.err = "panic" THEN "panic" ELSE "sample",
                       kf |-> updated, apply |-> FALSE, offset |-> 0]
                 ELSE [end |-> IF io_ok THEN "ok" ELSE "stdout",
                       kf |-> updated, apply |-> TRUE,
                       offset |-> OffsetToApply(message.offset, smoothed_offset.val)]
             : smoothed_offset \in {SmoothedToDuration(updated.x_hat[1])}} : TRUE
             : updated \in {KalmanUpdate(self, measured_offset_secs.val, measurement_noise_r, m)}} : TRUE
             : measurement_noise_r \in {F64Mul(measured_delay_secs.val, KalmanConfig.delay_to_r_factor)}} : TRUE
    : measured_delay_secs \in {DurationToSecs(message.delay)}} : TRUE
    : measured_offset_secs \in {DurationToSecs(message.offset)}} : TRUE

(***************************************************************************)
(* The network and the channel.                                            *)
(***************************************************************************)
Servers == 1..NumServers

\* random_range(0..=2) seconds (ntp.rs:145).
SyncIntervals == 0..MaxSyncIntervalSecs

Ts(seconds, fraction) == [seconds |-> seconds, fraction |-> fraction]

\* What socket.recv can return (ntp.rs:111): an error (a timeout), or a
\* datagram of n bytes with any T2 and T3 in it.  The servers of the model
\* answer with nothing, a short datagram, a T2 before the Unix epoch, the
\* time of second 2, or a T3 one second after a T2 of second 2.
NoReply == [n |-> -1, t2 |-> Ts(0, 0), t3 |-> Ts(0, 0)]
Reply(n, t2, t3) == [n |-> n, t2 |-> t2, t3 |-> t3]
Replies ==
    {NoReply,
     Reply(NTP_PACKET_SIZE - 1, Ts(NTP_UNIX_EPOCH_DIFF + 2, 0), Ts(NTP_UNIX_EPOCH_DIFF + 2, 0)),
     Reply(NTP_PACKET_SIZE, Ts(NTP_UNIX_EPOCH_DIFF - 1, 0), Ts(NTP_UNIX_EPOCH_DIFF + 2, 0)),
     Reply(NTP_PACKET_SIZE, Ts(NTP_UNIX_EPOCH_DIFF + 2, 0), Ts(NTP_UNIX_EPOCH_DIFF + 2, 0)),
     Reply(NTP_PACKET_SIZE, Ts(NTP_UNIX_EPOCH_DIFF + 2, 0), Ts(NTP_UNIX_EPOCH_DIFF + 3, 0))}

\* query_ntp up to socket.send (ntp.rs:94-109) at monotonic time m: the
\* network calls succeed or one of them fails.
QueryStart(m, net_ok) ==
    LET t1 == ClockNow(m)
        t1_ntp == FromChronoUtc(t1)
    IN IF ~net_ok THEN Err("io")
       ELSE IF ~t1_ntp.ok THEN t1_ntp
       ELSE Ok([t1 |-> t1, send_instant |-> m])

\* A query that takes T4 from a new reading of the program clock.
QueryEnd_RereadsClock(q, m, reply) ==
    IF reply = NoReply THEN Err("io")
    ELSE QueryFinish(q.t1, q.t1, ClockNow(m), reply.n, reply.t2, reply.t3)

\* query_ntp from socket.recv on (ntp.rs:111-132) at monotonic time m.
QueryEnd(q, m, reply) ==
    IF reply = NoReply THEN Err("io")
    ELSE QueryFinish(q.t1, q.send_instant, m, reply.n, reply.t2, reply.t3)

NoQuery == [t1 |-> 0, send_instant |-> 0]

Syncing(server) == [type |-> "Syncing", server |-> server]
Success(offset, delay) == [type |-> "Success", offset |-> offset, delay |-> delay]

\* A channel that hands a new message over before the queued ones.
Enqueue_AtFront(q, message) == <<message>> \o q

\* Sender::send on a live channel (ntp.rs:149 and 153).
Enqueue(q, message) == Append(q, message)

\* A receive that leaves the message in the queue.
Dequeue_KeepsHead(q) == q

\* Receiver::try_recv on a queue that is not empty (app.rs:199): the queue
\* it leaves; the message it returns is Head(q).
Dequeue(q) == Tail(q)

\* A sampler thread that starts with a query.
SamplerEntry_QueryFirst == "s_send"

\* The sampler thread starts at the top of its loop (ntp.rs:142-145).
SamplerEntry == "s_pick"

\* A sampler that queries again instead of starting its next iteration.
AfterSample_QueryAgain == "s_send"

\* The sampler after its query (ntp.rs:144 and 157): the next iteration.
AfterSample == "s_pick"

\* A sampler that goes on to its next iteration when a send has failed.
AfterFailedSend_NextIteration == "s_pick"

\* The sampler after a send that returned an error, the receiver being gone
\* (ntp.rs:149-151 and 153-156): `break`, and the thread ends.
AfterFailedSend == "s_done"

\* An orchestrator that receives again without sleeping.
AfterReceive_ReceiveAgain == "ui_recv"

\* run_ui_loop after `if let Ok(message) = rx.try_recv() { .. }`
\* (app.rs:202): the sleep.
AfterReceive == "ui_sleep"

\* An initial_sync that takes the second component of the sample.
InitialOffset_Delay(sample) == sample.delay

\* `if let Ok((initial_offset, _)) = query_ntp(..)` (app.rs:74-77): the
\* offset of the sample, as measured.
InitialOffset(sample) == sample.offset

\* apply_offset (program_clock.rs:21-25) as one step: now() is computed from
\* the reading m1, the anchor is stamped with the reading m2.
ApplyOffsetAt(offset, m1, m2) ==
    /\ current_utc' = NowFrom(current_utc, Elapsed(last_updated_at, m1)) + offset
    /\ last_updated_at' = m2
    /\ mono' = m2

\* The readings of the monotonic clock that can follow the reading m.
LaterReadings(m) == {x \in {m, m + 1} : x <= MaxMono}

\* The history after a message was sent.
NoteSent(h, message) ==
    [h EXCEPT !.sent = <<h.sent[2], message.type>>,
              !.unreceived = Append(@, message),
              !.since_recv = IF @ < 2 THEN @ + 1 ELSE @,
              !.burst = @ \/ h.since_recv >= 1]

\* The history after a step of the sampler, the receiver alive or gone.
NoteStep(h, alive) ==
    [h EXCEPT !.ssteps = IF ~alive /\ @ <= MaxDrainSteps THEN @ + 1 ELSE @]

\* The history after the sampler began a query, the receiver alive or gone.
NoteQuery(h, alive) ==
    [h EXCEPT !.iter_queries = IF @ < 2 THEN @ + 1 ELSE @,
              !.qafter = IF ~alive /\ @ < 2 THEN @ + 1 ELSE @]

\* The history after a query returned a sample at monotonic time m: what the
\* query had read and received, and what a new reading of the program clock
\* would have given at that moment.
NoteExchange(h, q, m, reply, sample) ==
    [h EXCEPT !.last_query = "ok",
              !.last_exchange = [t1 |-> q.t1, send_instant |-> q.send_instant,
                                 recv_instant |-> m, reply |-> reply,
                                 reread |-> ClockNow(m), sample |-> sample]]

\* The history after try_recv returned a message.
NoteReceived(h, message) ==
    [h EXCEPT !.recvd = <<h.recvd[2], message>>,
              !.nrecvd = @ + 1,
              !.in_order = @ /\ h.unreceived # <<>> /\ message = Head(h.unreceived),
              !.unreceived = IF @ = <<>> THEN @ ELSE Tail(@),
              !.attempts = @ + 1,
              !.handled = @ + 1,
              !.since_recv = 0]

(***************************************************************************)
(* Spec: run() (app.rs) and the sampler thread (ntp.rs).                   *)
(***************************************************************************)
LoopPcs == {"ui_check", "ui_recv", "ui_sleep"}
ExitPcs == {"exit_ok", "exit_err", "panicked"}

\* The history of a run that has not begun.
NoHistory ==
    [sent |-> <<"", "">>,      \* the types of the last two messages sent
     unreceived |-> <<>>,      \* the messages sent and not yet received
     recvd |-> <<"", "">>,     \* the last two messages received
     nrecvd |-> 0,             \* how many messages were received
     in_order |-> TRUE,        \* each was the oldest unreceived one
     since_recv |-> 0,         \* sends since the last try_recv (0, 1, 2+)
     burst |-> FALSE,          \* two sends without a try_recv between
     iters |-> 0,              \* iterations the sampler has started
     tries |-> 1,              \* rounds of initial_sync
     attempts |-> 0,           \* try_recv calls of this round of the loop
     handled |-> 0,            \* messages handled in this round
     sample_failed |-> FALSE,  \* a sample could not be converted
     exit |-> "",              \* why run() ended
     partial |-> FALSE,        \* the filter took a sample the clock did not
     applied |-> 0,            \* sum of the offsets handle_sync_message applied
     init_applies |-> 0,       \* apply_offset calls of initial_sync
     init_sample |-> <<>>,     \* what the initial query measured, and when
     last_query |-> "",        \* how the sampler's query of this iteration ended
     iter_queries |-> 0,       \* queries of this iteration of the sampler
     qafter |-> 0,             \* queries the sampler began after rx was dropped
     ssteps |-> 0,             \* steps the sampler took after rx was dropped
     last_exchange |-> <<>>]   \* the query that gave this iteration's sample

Init ==
    /\ mono = 0
    /\ current_utc = InitialUtc
    /\ last_updated_at = 0
    /\ lock = "free"
    /\ cpc = [t \in Threads |-> "idle"]
    /\ cloc = [t \in Threads |-> NoLocals]
    /\ cghost = <<>>
    /\ qx = <<>>
    /\ running = TRUE
    /\ chan = <<>>
    /\ rx_alive = FALSE
    /\ opc = "init_check"
    /\ spc = "unborn"
    /\ oloc = NoQuery
    /\ sloc = [interval |-> 0, t1 |-> 0, send_instant |-> 0]
    /\ kf = <<>>
    /\ hist = NoHistory

\* The Ctrl+C handler (app.rs:26-28).
CtrlC ==
    /\ running
    /\ opc \notin ExitPcs
    /\ running' = FALSE
    /\ UNCHANGED <<mono, clockVars, chan, rx_alive, opc, spc, oloc, sloc, kf, hist, outsideSys>>

\* run() returns: `rx` goes out of scope and the queued messages with it.
Leave(pc, cause) ==
    /\ opc' = pc
    /\ hist' = [hist EXCEPT !.exit = cause, !.unreceived = <<>>]
    /\ rx_alive' = FALSE
    /\ chan' = <<>>

\* initial_sync, the top of its loop (app.rs:62-73).
InitCheck ==
    /\ opc = "init_check"
    /\ IF ~running
       THEN Leave("exit_ok", "cancelled")
       ELSE \E io_ok \in BOOLEAN :
              IF io_ok
              THEN opc' = "init_send" /\ UNCHANGED <<hist, rx_alive, chan>>
              ELSE Leave("exit_err", "stdout")
    /\ UNCHANGED <<mono, clockVars, running, spc, oloc, sloc, kf, outsideSys>>

\* initial_sync: query_ntp up to the send (app.rs:74-75).
InitSend ==
    /\ opc = "init_send"
    /\ \E net_ok \in BOOLEAN :
         LET started == QueryStart(mono, net_ok)
         IN IF started.ok
            THEN opc' = "init_recv" /\ oloc' = started.val
            ELSE opc' = "init_retry" /\ oloc' = NoQuery
    /\ UNCHANGED <<mono, clockVars, running, chan, rx_alive, spc, sloc, kf, hist, outsideSys>>

\* initial_sync: the rest of query_ntp; on a sample, apply_offset and return
\* (app.rs:74-80); run() then creates the filter and starts the sampler
\* thread (app.rs:36-43).
InitRecv ==
    /\ opc = "init_recv"
    /\ \E reply \in Replies :
         LET sample == QueryEnd(oloc, mono, reply)
         IN IF sample.ok
            THEN /\ \E m2 \in LaterReadings(mono) :
                      /\ ApplyOffsetAt(InitialOffset(sample.val), mono, m2)
                      /\ kf' = KalmanNew(F64(0), KalmanConfig.initial_uncertainty,
                                         KalmanConfig.initial_process_noise_q,
                                         KalmanConfig.adaptation_rate_eta,
                                         KalmanConfig.nis_ema_alpha, m2)
                 /\ rx_alive' = TRUE
                 /\ spc' = SamplerEntry
                 /\ opc' = "ui_check"
                 /\ hist' = [hist EXCEPT !.init_applies = @ + 1,
                                          !.init_sample = [offset |-> sample.val.offset,
                                                           at |-> mono]]
            ELSE /\ opc' = "init_retry"
                 /\ UNCHANGED <<mono, clockVars, kf, rx_alive, spc, hist>>
    /\ oloc' = NoQuery
    /\ UNCHANGED <<running, chan, sloc, outsideSys>>

\* initial_sync: the sleep before the next attempt (app.rs:81).  The rounds
\* are counted up to MaxInitTries while the loop can go on; after Ctrl+C the
\* next round is the last.
InitRetry ==
    /\ opc = "init_retry"
    /\ hist.tries < MaxInitTries \/ ~running
    /\ opc' = "init_check"
    /\ hist' = [hist EXCEPT !.tries = IF @ < MaxInitTries THEN @ + 1 ELSE @]
    /\ UNCHANGED <<mono, clockVars, running, chan, rx_alive, spc, oloc, sloc, kf, outsideSys>>

\* run_ui_loop, the top of its loop: the test of `running`, the reading of
\* the clock and its display (app.rs:186-198).
UiCheck ==
    /\ opc = "ui_check"
    /\ IF ~running
       THEN Leave("exit_ok", "cancelled")
       ELSE \E io_ok \in BOOLEAN :
              IF io_ok
              THEN /\ opc' = "ui_recv"
                   /\ hist' = [hist EXCEPT !.attempts = 0, !.handled = 0]
                   /\ UNCHANGED <<rx_alive, chan>>
              ELSE Leave("exit_err", "stdout")
    /\ UNCHANGED <<mono, clockVars, running, spc, oloc, sloc, kf, outsideSys>>

\* run_ui_loop: try_recv and, of a message, handle_sync_message
\* (app.rs:199-201).
UiRecv ==
    /\ opc = "ui_recv"
    /\ IF chan = <<>>
       THEN /\ opc' = AfterReceive
            /\ hist' = [hist EXCEPT !.attempts = @ + 1, !.since_recv = 0]
            /\ UNCHANGED <<mono, clockVars, chan, rx_alive, kf>>
       ELSE \E io_ok \in BOOLEAN :
            \E handled \in {HandleSyncMessage(Head(chan), kf, mono, io_ok)},
               m2 \in LaterReadings(mono) :
              LET h == [NoteReceived(hist, Head(chan)) EXCEPT
                           !.partial = @ \/ (handled.kf # kf /\ ~handled.apply),
                           !.applied = IF handled.apply THEN @ + handled.offset ELSE @]
              IN /\ kf' = handled.kf
                 /\ IF handled.apply
                    THEN ApplyOffsetAt(handled.offset, mono, m2)
                    ELSE m2 = mono /\ UNCHANGED <<mono, clockVars>>
                 /\ IF handled.end = "ok"
                    THEN /\ opc' = AfterReceive
                         /\ hist' = h
                         /\ chan' = Dequeue(chan)
                         /\ UNCHANGED rx_alive
                    ELSE /\ opc' = IF handled.end = "panic" THEN "panicked" ELSE "exit_err"
                         /\ hist' = [h EXCEPT !.exit = IF handled.end = "stdout"
                                                       THEN "stdout" ELSE "sample",
                                              !.sample_failed = handled.end # "stdout",
                                              !.unreceived = <<>>]
                         /\ rx_alive' = FALSE
                         /\ chan' = <<>>
    /\ UNCHANGED <<running, spc, oloc, sloc, outsideSys>>

\* run_ui_loop: the sleep of the refresh interval (app.rs:202).
UiSleep ==
    /\ opc = "ui_sleep"
    /\ opc' = "ui_check"
    /\ UNCHANGED <<mono, clockVars, running, chan, rx_alive, spc, oloc, sloc, kf, hist, outsideSys>>

\* The sampler draws the interval of its sleep (ntp.rs:145).  The
\* iterations are counted up to MaxIters while the receiver is alive; once
\* it is gone the sampler runs on, to the send that fails.
SamplerPick ==
    /\ spc = "s_pick"
    /\ hist.iters < MaxIters \/ ~rx_alive
    /\ \E interval \in SyncIntervals : sloc' = [sloc EXCEPT !.interval = interval]
    /\ spc' = "s_sleep"
    /\ hist' = [NoteStep(hist, rx_alive) EXCEPT
                             !.iters = IF @ < MaxIters THEN @ + 1 ELSE @,
                             !.last_query = "",
                             !.iter_queries = 0,
                             !.last_exchange = <<>>]
    /\ UNCHANGED <<mono, clockVars, running, chan, rx_alive, opc, oloc, kf, outsideSys>>

\* The sleep is over, at some time that the model does not measure; the
\* sampler draws a server and sends Syncing, and leaves its loop if the
\* receiver is gone (ntp.rs:146-151).
SamplerSync ==
    /\ spc = "s_sleep"
    /\ IF rx_alive
       THEN \E server \in Servers :
              /\ chan' = Enqueue(chan, Syncing(server))
              /\ hist' = NoteSent(hist, Syncing(server))
              /\ spc' = "s_send"
       ELSE /\ spc' = AfterFailedSend
            /\ hist' = NoteStep(hist, rx_alive)
            /\ UNCHANGED chan
    /\ sloc' = [sloc EXCEPT !.interval = 0]
    /\ UNCHANGED <<mono, clockVars, running, rx_alive, opc, oloc, kf, outsideSys>>

\* perform_sync: query_ntp up to the send (ntp.rs:152, 134-139).
SamplerSend ==
    /\ spc = "s_send"
    /\ \E net_ok \in BOOLEAN :
         LET started == QueryStart(mono, net_ok)
         IN IF started.ok
            THEN /\ spc' = "s_recv"
                 /\ sloc' = [sloc EXCEPT !.t1 = started.val.t1,
                                         !.send_instant = started.val.send_instant]
                 /\ hist' = NoteQuery(NoteStep(hist, rx_alive), rx_alive)
            ELSE /\ spc' = AfterSample
                 /\ hist' = [NoteQuery(NoteStep(hist, rx_alive), rx_alive) EXCEPT
                                !.last_query = "failed"]
                 /\ UNCHANGED sloc
    /\ UNCHANGED <<mono, clockVars, running, chan, rx_alive, opc, oloc, kf, outsideSys>>

\* The rest of query_ntp; of a sample the sampler sends Success, and leaves
\* its loop if the receiver is gone (ntp.rs:152-156).
SamplerRecv ==
    /\ spc = "s_recv"
    /\ \E reply \in Replies :
         LET sample == QueryEnd(sloc, mono, reply)
             message == Success(sample.val.offset, sample.val.delay)
         IN IF ~sample.ok
            THEN /\ spc' = AfterSample
                 /\ hist' = [NoteStep(hist, rx_alive) EXCEPT !.last_query = "failed"]
                 /\ UNCHANGED chan
            ELSE IF rx_alive
            THEN /\ chan' = Enqueue(chan, message)
                 /\ hist' = NoteExchange(NoteSent(hist, message), sloc, mono,
                                         reply, sample.val)
                 /\ spc' = AfterSample
            ELSE /\ spc' = AfterFailedSend
                 /\ hist' = NoteExchange(NoteStep(hist, rx_alive), sloc, mono,
                                         reply, sample.val)
                 /\ UNCHANGED chan
    /\ sloc' = [sloc EXCEPT !.t1 = 0, !.send_instant = 0]
    /\ UNCHANGED <<mono, clockVars, running, rx_alive, opc, oloc, kf, outsideSys>>

Next ==
    \/ Tick
    \/ CtrlC
    \/ InitCheck
    \/ InitSend
    \/ InitRecv
    \/ InitRetry
    \/ UiCheck
    \/ UiRecv
    \/ UiSleep
    \/ SamplerPick
    \/ SamplerSync
    \/ SamplerSend
    \/ SamplerRecv

Spec == Init /\ [][Next]_vars

(***************************************************************************)
(* SpecFeed: run_ui_loop fed a fixed sequence of Success messages, the     *)
(* filter starting at offset 0 and drift 0.  The unit of the offsets is    *)
(* the microsecond, the resolution at which handle_sync_message reads a    *)
(* sample (app.rs:130 and 137).  The messages are handled one after the    *)
(* other at one reading of the monotonic clock, its last.                  *)
(***************************************************************************)
FeedUnit == NanosPerMicro
\* The offsets of the fed samples, in units; every sample has a delay of
\* FeedDelay units.
FeedOffsets == {9, 10, 11}
FeedDelay == 2
FeedLen == 5
FeedMessages(offsets) ==
    [i \in 1..FeedLen |-> Success(offsets[i] * FeedUnit, FeedDelay * FeedUnit)]

InitFeed ==
    /\ mono = MaxMono
    /\ current_utc = InitialUtc
    /\ last_updated_at = 0
    /\ lock = "free"
    /\ cpc = [t \in Threads |-> "idle"]
    /\ cloc = [t \in Threads |-> NoLocals]
    /\ cghost = <<>>
    /\ qx \in [1..FeedLen -> FeedOffsets]
    /\ running = TRUE
    /\ chan = FeedMessages(qx)
    /\ rx_alive = TRUE
    /\ opc = "ui_check"
    /\ spc = "unborn"
    /\ oloc = NoQuery
    /\ sloc = [interval |-> 0, t1 |-> 0, send_instant |-> 0]
    /\ kf = KalmanNew(F64(0), KalmanConfig.initial_uncertainty,
                      KalmanConfig.initial_process_noise_q,
                      KalmanConfig.adaptation_rate_eta,
                      KalmanConfig.nis_ema_alpha, MaxMono)
    /\ hist = [NoHistory EXCEPT !.unreceived = FeedMessages(qx)]

NextFeed == UiCheck \/ UiRecv \/ UiSleep

SpecFeed == InitFeed /\ [][NextFeed]_vars

\* The steps of the main thread and of the sampler thread.
(***************************************************************************)
(* SpecHandle: run_ui_loop receives one Success message whose offset and   *)
(* delay lie at, next to and far from the two limits of the conversion to  *)
(* seconds.                                                                *)
(***************************************************************************)
\* The first Duration past 2^53 microseconds and the first past i64
\* microseconds, in ticks.
PastF64 == (MAX_SAFE_INTEGER_IN_F64 + 1) * NanosPerMicro
PastI64 == (I64MaxMicros + 1) * NanosPerMicro

\* Durations of a sample: small ones, and each limit with its neighbours on
\* both sides of zero.
HandleDurations ==
    {s * x : s \in {-1, 1},
             x \in {0, 1, NanosPerMicro, PastF64 - NanosPerMicro - 1, PastF64 - 1,
                    PastF64, PastF64 + 1, PastI64 - 1, PastI64, PastI64 + 1}}

InitHandle ==
    /\ mono = MaxMono
    /\ current_utc = InitialUtc
    /\ last_updated_at = 0
    /\ lock = "free"
    /\ cpc = [t \in Threads |-> "idle"]
    /\ cloc = [t \in Threads |-> NoLocals]
    /\ cghost = <<>>
    /\ qx = <<>>
    /\ running = TRUE
    /\ \E o \in HandleDurations, d \in HandleDurations :
          /\ chan = <<Success(o, d)>>
          /\ hist = [NoHistory EXCEPT !.unreceived = <<Success(o, d)>>]
    /\ rx_alive = TRUE
    /\ opc = "ui_check"
    /\ spc = "unborn"
    /\ oloc = NoQuery
    /\ sloc = [interval |-> 0, t1 |-> 0, send_instant |-> 0]
    /\ kf = KalmanNew(F64(0), KalmanConfig.initial_uncertainty,
                      KalmanConfig.initial_process_noise_q,
                      KalmanConfig.adaptation_rate_eta,
                      KalmanConfig.nis_ema_alpha, MaxMono)

SpecHandle == InitHandle /\ [][NextFeed]_vars

(***************************************************************************)
(* SpecSampler: the sampler thread that run() starts with                  *)
(* `start_sync_thread(Arc::clone(&clock), config.ntp.clone())` (app.rs:43), *)
(* for several configurations; qx holds the NtpConfig of the call.  The    *)
(* receiver stays alive and takes nothing from the channel.                *)
(***************************************************************************)
\* The NtpConfig fields the sampler is to follow (config.rs:85-97), each
\* accepted by validate() (config.rs:120-153): the server list is not empty
\* and sync_interval_min_secs <= sync_interval_max_secs.  Servers are named
\* by a number; 1..NumServers are those of NTP_SERVERS.
NtpConfigs ==
    {[servers |-> s, sync_interval_min_secs |-> i[1],
      sync_interval_max_secs |-> i[2], sync_timeout_millis |-> t] :
        s \in {Servers, {1}, {NumServers + 1}},
        i \in {<<0, MaxSyncIntervalSecs>>, <<1, 1>>,
               <<MaxSyncIntervalSecs + 1, MaxSyncIntervalSecs + 2>>},
        t \in {SyncTimeoutMillis, 2 * SyncTimeoutMillis}}

InitSampler ==
    /\ mono = 0
    /\ current_utc = InitialUtc
    /\ last_updated_at = 0
    /\ lock = "free"
    /\ cpc = [t \in Threads |-> "idle"]
    /\ cloc = [t \in Threads |-> NoLocals]
    /\ cghost = <<>>
    /\ qx \in NtpConfigs
    /\ running = TRUE
    /\ chan = <<>>
    /\ rx_alive = TRUE
    /\ opc = "ui_check"
    /\ spc = SamplerEntry
    /\ oloc = NoQuery
    /\ sloc = [interval |-> 0, t1 |-> 0, send_instant |-> 0]
    /\ kf = KalmanNew(F64(0), KalmanConfig.initial_uncertainty,
                      KalmanConfig.initial_process_noise_q,
                      KalmanConfig.adaptation_rate_eta,
                      KalmanConfig.nis_ema_alpha, 0)
    /\ hist = NoHistory

NextSampler == SamplerPick \/ SamplerSync \/ SamplerSend \/ SamplerRecv

SpecSampler == InitSampler /\ [][NextSampler]_vars

OrchestratorStep ==
    InitCheck \/ InitSend \/ InitRecv \/ InitRetry \/ UiCheck \/ UiRecv \/ UiSleep
SamplerStep == SamplerPick \/ SamplerSync \/ SamplerSend \/ SamplerRecv

\* Each thread is scheduled as long as it can run: its sleeps end and its
\* socket calls return, with a datagram or with the timeout set at
\* ntp.rs:100-101.
SpecFair == Spec /\ WF_vars(OrchestratorStep) /\ WF_vars(SamplerStep)

(***************************************************************************)
(* Claims about one exchange, checked under SpecQuery.                     *)
(***************************************************************************)
\* T2, T3 and T4 of the exchange in qx.
QxT2 == ToSystemTime(qx.t2).val
QxT3 == ToSystemTime(qx.t3).val
QxT4 == qx.t1 + qx.round_trip
QxDone == qx # <<>> /\ qx.res # <<>>

\* C4: a successful query returns offset = ((T2-T1) + (T3-T4)) / 2, to the
\* resolution of a Duration (one tick), and delay = (T4-T1) - (T3-T2); the
\* timestamps 1000, 1005, 1006, 1002 s give 4.5 s and 1 s.
C4_OffsetDelayFormulas ==
    /\ (QxDone /\ qx.res.ok) =>
          /\ 2 * qx.res.val.offset <= (QxT2 - qx.t1) + (QxT3 - QxT4)
          /\ (QxT2 - qx.t1) + (QxT3 - QxT4) <= 2 * qx.res.val.offset + 1
          /\ qx.res.val.delay = (QxT4 - qx.t1) - (QxT3 - QxT2)
    /\ OffsetDelay(1000 * TicksPerSec, 1005 * TicksPerSec,
                   1006 * TicksPerSec, 1002 * TicksPerSec)
          = [offset |-> (9 * TicksPerSec) \div 2, delay |-> 1 * TicksPerSec]
    /\ 2 * ((9 * TicksPerSec) \div 2) = 9 * TicksPerSec

\* C4 witness: a successful exchange with a round trip, T2 # T3, a negative
\* offset and fractions in both server timestamps.
C4_Witness ==
    /\ QxDone /\ qx.res.ok
    /\ qx.round_trip > 0
    /\ qx.t2 # qx.t3
    /\ qx.t2.fraction > 0 /\ qx.t3.fraction > 0
    /\ qx.res.val.offset < 0

\* C5: every sample of a successful query has delay >= 0, whatever T2 and
\* T3 the server supplied.
C5_DelayNonNegative == (QxDone /\ qx.res.ok) => qx.res.val.delay >= 0

\* C19: a response shorter than 48 bytes makes the query fail without a
\* sample, whatever timestamps the bytes received hold, and the query leaves
\* the clock as it was.
C19_ShortPacketFails ==
    (QxDone /\ qx.n < NTP_PACKET_SIZE) =>
        /\ ~qx.res.ok
        /\ current_utc = InitialUtc /\ last_updated_at = 0

\* C19 witness: a short response whose two timestamps would decode, to a
\* request whose T1 was encoded; the query failed for the length.
C19_Witness ==
    /\ QxDone /\ qx.n = NTP_PACKET_SIZE - 1
    /\ FromChronoUtc(qx.t1).ok
    /\ qx.t2.seconds >= NTP_UNIX_EPOCH_DIFF /\ qx.t3.seconds > qx.t2.seconds
    /\ ~qx.res.ok /\ qx.res.err = "NTP response is too short"

\* C20: a response whose T2 or T3 has a seconds field below the epoch
\* difference makes the query fail without a sample; a seconds field at or
\* above it decodes to seconds - NTP_UNIX_EPOCH_DIFF Unix seconds.
C20_EpochCheck ==
    QxDone =>
        /\ (qx.t2.seconds < NTP_UNIX_EPOCH_DIFF \/ qx.t3.seconds < NTP_UNIX_EPOCH_DIFF)
               => ~qx.res.ok
        /\ \A ts \in {qx.t2, qx.t3} :
               ts.seconds >= NTP_UNIX_EPOCH_DIFF =>
                   /\ ToSystemTime(ts).ok
                   /\ ToSystemTime(ts).val \div TicksPerSec
                          = ts.seconds - NTP_UNIX_EPOCH_DIFF

\* C20 witness: a full response to an encoded request, T2 at or after the
\* epoch and T3 before it; the query failed for T3.
C20_Witness ==
    /\ QxDone /\ qx.n = NTP_PACKET_SIZE
    /\ FromChronoUtc(qx.t1).ok
    /\ qx.t2.seconds >= NTP_UNIX_EPOCH_DIFF
    /\ qx.t3.seconds < NTP_UNIX_EPOCH_DIFF
    /\ ~qx.res.ok /\ qx.res.err = "NTP time is earlier than Unix epoch"

(***************************************************************************)
(* Claims about the program clock, checked under SpecClock.                *)
(***************************************************************************)

\* C1 (as stated): a now() reading is never smaller than any earlier now()
\* reading, whatever apply_offset(d) calls with signed d come in between.
C1_NowNeverDecreases ==
    cghost.reads # <<>> => cghost.reads[2] >= cghost.reads[1]

\* C1 (amended): a now() reading is at least the previous reading plus the
\* negative offsets applied since then; with only d >= 0 applied in between
\* it is not smaller than the previous reading.
C1_NowDecreasesOnlyByNegativeOffsets ==
    cghost.reads # <<>> => cghost.reads[2] >= cghost.floor_was

\* C1 witness: a reading taken after a negative apply_offset, below an
\* earlier reading, with monotonic time having passed.
C1_Witness ==
    /\ cghost.reads # <<>>
    /\ cghost.reads[2] < cghost.reads[1]
    /\ cghost.applies > 0
    /\ mono > 0

\* C2: after apply_offset(d) at monotonic time t, a now() at t+e returns
\* exactly (the value now() had at t) + d + e.
C2_ApplyOffsetLosesNoTime ==
    (cghost.applied # <<>> /\ cghost.after # <<>>) =>
        cghost.after[1] = cghost.applied[1] + cghost.applied[2]
                          + (cghost.after[2] - cghost.applied[3])

\* C3: a now() computes from a consistent (current_utc, last_updated_at)
\* pair: while a thread is between reading last_updated_at (line 17) and
\* reading current_utc (line 18), neither field has been written since.
C3_ConsistentPair ==
    \A t \in Threads :
        cpc[t] \in {"now_18", "apply_18"} =>
            /\ cghost.utc_writes = cloc[t].ver_seen
            /\ cghost.anchor_writes = cloc[t].ver_seen

\* C3 witness: the orchestrator is inside apply_offset with current_utc
\* written and last_updated_at not yet, while the sampler waits for the lock
\* to read T1.
C3_Witness ==
    /\ cpc["orch"] = "apply_24"
    /\ cpc["sampler"] = "lock_now"
    /\ cghost.utc_writes # cghost.anchor_writes

(***************************************************************************)
(* Claims about the sampler, the channel and the steady-state loop,        *)
(* checked under Spec.                                                     *)
(***************************************************************************)
\* C6: in the sequence of messages the sampler publishes, a Success comes
\* directly after a Syncing: never after a Success, never first.
C6_SuccessFollowsSyncing == hist.sent[2] = "Success" => hist.sent[1] = "Syncing"

\* C6 witness: a Success was published, and after it the Syncing of the
\* next iteration.
C6_Witness == hist.sent = <<"Success", "Syncing">> /\ hist.iters = 2

\* C7: while the receiver is alive, every message try_recv returned was the
\* oldest message sent and not yet received, and the channel holds exactly
\* the messages sent and not yet received, in the order of their sending:
\* nothing is lost, duplicated or reordered.
C7_ChannelFifo == rx_alive => (hist.in_order /\ chan = hist.unreceived)

\* C7 witness: the orchestrator has received Syncing, Success and the
\* Syncing of the next iteration, for another server.
C7_Witness ==
    /\ rx_alive
    /\ hist.nrecvd = 3
    /\ hist.recvd[1].type = "Success"
    /\ hist.recvd[2] = Syncing(2)
    /\ hist.sent = <<"Success", "Syncing">>

\* C8 as stated: the channel never holds more than one message.
C8_QueueDepthAtMostOne == Len(chan) <= 1

\* C8, amended: the channel holds at most one message as long as the
\* sampler has not sent two messages without a try_recv of the orchestrator
\* between them.
C8_QueueDepthAtMostOneWithoutBurst == ~hist.burst => Len(chan) <= 1

\* C8 witness: in the steady-state loop, after messages were received, one
\* message is queued and no two were sent between two receive attempts.
C8_Witness ==
    /\ opc \in LoopPcs
    /\ ~hist.burst
    /\ hist.nrecvd = 2
    /\ Len(chan) = 1

\* C9: a round of the steady-state loop makes one try_recv and handles at
\* most one message before it sleeps.
C9_OneMessagePerTick ==
    /\ opc \in LoopPcs => (hist.attempts <= 1 /\ hist.handled <= hist.attempts)
    /\ opc = "ui_sleep" => hist.attempts = 1

\* C9 witness: the loop is about to sleep after handling one message while
\* another is queued.
C9_Witness == opc = "ui_sleep" /\ hist.handled = 1 /\ Len(chan) >= 1

\* C10: after a sample that could not be converted the orchestrator is
\* still in its steady-state loop.
C10_SampleErrorIsolated == hist.sample_failed => opc \in LoopPcs


\* C11: the filter never keeps a sample whose correction the clock did not
\* get: handling a Success either updates the filter and applies the
\* smoothed offset, or changes neither.
C11_NoPartialSample == ~hist.partial

\* A drift estimate within 1000 ppm of zero.
NearZero(x) == IsFinite(x) /\ Abs(x.n) * 1000 <= x.d

\* C17: fed Success samples with offsets 10, 11, 9, 10, 10 units and delays
\* of 2 units, the orchestrator has applied offsets that sum to within one
\* unit of 10 units, and the drift the filter reports is near zero.
C17_FeedAccumulatesTen ==
    (qx = <<10, 11, 9, 10, 10>> /\ hist.nrecvd = FeedLen /\ opc \in LoopPcs) =>
        /\ Abs(hist.applied - 10 * FeedUnit) <= 1 * FeedUnit
        /\ NearZero(kf.x_hat[2])

(***************************************************************************)
(* Claims about cancellation and termination.                              *)
(***************************************************************************)
InitPcs == {"init_check", "init_send", "init_recv", "init_retry"}

\* C12: once `running` is false the orchestrator eventually reaches
\* Shutdown: run() returns.
C12_CancelLeadsToShutdown == (~running) ~> (opc \in {"exit_ok", "exit_err"})

\* C13: after the receiver was dropped the sampler thread begins at most one
\* further query and ends: until it has ended it can always take a step (no
\* step waits for anything but a sleep or a socket timeout), and it ends
\* within MaxDrainSteps steps.
C13_SamplerEndsAfterDrop ==
    /\ hist.qafter <= 1
    /\ (spc \notin {"unborn", "s_done"} /\ ~rx_alive) =>
          /\ ENABLED SamplerStep
          /\ hist.ssteps < MaxDrainSteps
    /\ hist.ssteps <= MaxDrainSteps

\* C13 witness: the receiver is gone, the sampler began one query after
\* that and has ended.
C13_Witness ==
    ~rx_alive /\ hist.qafter = 1 /\ hist.ssteps = MaxDrainSteps /\ spc = "s_done"

\* C14: a sampler that finds `running` false at the start of an iteration
\* starts no new sleep (and so publishes no Syncing and issues no query),
\* also while the receiver is alive.
C14_SamplerObservesRunning ==
    [][(~running /\ spc = "s_pick") => spc' \in {"s_pick", "s_done"}]_vars

\* C15: the orchestrator is in Running (filter created, sampler started)
\* only after an initial query succeeded and its offset, as measured, was
\* applied to the clock exactly once; until then the clock is untouched, and
\* a failed initial query is followed by the retry sleep, which is followed
\* by a new attempt.
C15_RunningAfterInitialSync ==
    /\ [](opc \in InitPcs =>
            /\ hist.init_applies = 0
            /\ current_utc = InitialUtc /\ last_updated_at = 0
            /\ kf = <<>> /\ spc = "unborn" /\ ~rx_alive)
    /\ [](opc \in LoopPcs =>
            /\ hist.init_applies = 1
            /\ kf # <<>> /\ spc # "unborn"
            /\ hist.nrecvd = 0 =>
                 current_utc = InitialUtc + hist.init_sample.at + hist.init_sample.offset)
    /\ [][/\ (opc \in {"init_send", "init_recv"} /\ opc' \in InitPcs \ {opc, "init_recv"})
             => (opc' = "init_retry" /\ UNCHANGED clockVars)
          /\ (opc = "init_retry" /\ opc' # opc) => opc' = "init_check"]_vars

\* C15 witness: Running was entered at the second attempt, with a measured
\* offset that is not zero, and no message was handled yet.
C15_Witness ==
    /\ opc \in LoopPcs /\ hist.nrecvd = 0
    /\ hist.tries = 2 /\ hist.init_sample.offset # 0

\* C16: when `running` becomes false during initial sync, run() returns
\* without error, without creating the filter, without starting the sampler
\* thread and without entering the steady-state loop.
C16_CancelledInitialSync ==
    [][(~running /\ opc \in InitPcs) =>
          /\ opc' \in InitPcs \cup {"exit_ok"}
          /\ kf' = <<>> /\ spc' = "unborn"]_vars

(***************************************************************************)
(* Claims about failed queries of the sampler.                             *)
(***************************************************************************)
\* C18: a failed query of the sampler publishes no Success (the last
\* message sent is the Syncing of the iteration), is the only query of its
\* iteration, and leaves the sampler at the top of its loop, where the next
\* iteration draws a new sleep and a new server.
C18_FailedQueryDropped ==
    /\ hist.last_query = "failed" =>
          /\ spc = "s_pick"
          /\ hist.sent[2] = "Syncing"
          /\ hist.iter_queries = 1
    /\ hist.iter_queries <= 1

\* C18 witness: the query of the first iteration failed, the sampler went
\* on to a second iteration, whose query failed too.
C18_Witness ==
    /\ hist.sent = <<"Syncing", "Syncing">>
    /\ hist.last_query = "failed" /\ hist.iters = 2 /\ rx_alive

(***************************************************************************)
(* Claims about the encoding of timestamps, checked under SpecQuery.       *)
(***************************************************************************)
\* C21: for every encodable time, decoding the timestamp sent in the request
\* gives the same Unix second and a sub-second value at most one tick below
\* the original, and the bytes of a timestamp, the request's and the
\* response's, read back as the same (seconds, fraction) pair.
C21_RoundTrip ==
    QxDone =>
        /\ (FromChronoUtc(qx.t1).ok /\ qx.req # <<>>) =>
              LET sent == FromBytes(qx.req)
                  back == ToSystemTime(sent)
              IN /\ sent = FromChronoUtc(qx.t1).val
                 /\ back.ok
                 /\ back.val \div TicksPerSec = qx.t1 \div TicksPerSec
                 /\ (qx.t1 % TicksPerSec) - (back.val % TicksPerSec) \in {0, 1}
                 /\ ToBytes(sent) = qx.req
        /\ \A ts \in {qx.t2, qx.t3} :
              /\ Len(ToBytes(ts)) = 8
              /\ FromBytes(ToBytes(ts)) = ts

\* C21 witness: a request sent at a time with a sub-second part that the
\* fraction field cannot hold exactly, in its last encodable second.
C21_Witness ==
    /\ QxDone /\ qx.req # <<>>
    /\ FromChronoUtc(qx.t1).ok
    /\ qx.t1 \div TicksPerSec = U32_MAX - NTP_UNIX_EPOCH_DIFF
    /\ ToSystemTime(FromBytes(qx.req)).val = qx.t1 - 1
    /\ qx.t2.fraction > 0 /\ qx.t3 # qx.t2

\* C29: when T1 precedes the Unix epoch or its Unix seconds plus
\* NTP_UNIX_EPOCH_DIFF exceed u32::MAX, the query fails and sends nothing;
\* the seconds field of a request is the unwrapped sum.
C29_EncodeRejectsOverflow ==
    QxDone =>
        /\ (qx.t1 < 0 \/ qx.t1 \div TicksPerSec + NTP_UNIX_EPOCH_DIFF > U32_MAX)
               => (~qx.res.ok /\ qx.req = <<>>)
        /\ qx.req # <<>> =>
               FromBytes(qx.req).seconds
                   = qx.t1 \div TicksPerSec + NTP_UNIX_EPOCH_DIFF

(***************************************************************************)
(* Claims about the Kalman filter, checked under SpecFilter.               *)
(***************************************************************************)
\* The prediction of the last update, its innovation y and its innovation
\* variance S (kalman_filter.rs:68-77).
LastPredicted ==
    Predict(qx.before, Rat(kf.last_timestamp - qx.before.last_timestamp, TicksPerSec))
LastY == F64Sub(qx.z, LastPredicted.x[1])
LastS == F64Add(LastPredicted.p[1][1], qx.r)

\* C22: after every update, with R >= 0 and dt >= 0, the covariance P is a
\* matrix of numbers with P[0][1] = P[1][0] and with neither diagonal entry
\* negative.
C22_CovarianceSymmetric ==
    qx.updates > 0 =>
        /\ \A i \in 1..2, j \in 1..2 : IsFinite(kf.p_matrix[i][j])
        /\ kf.p_matrix[1][2] = kf.p_matrix[2][1]
        /\ ~F64Less(kf.p_matrix[1][1], F64(0))
        /\ ~F64Less(kf.p_matrix[2][2], F64(0))

\* C23: after every update of a filter with a valid configuration,
\* process_noise_q > 0 and nis_ema > 0.
C23_NoiseAndNisPositive ==
    qx.updates > 0 =>
        /\ F64Less(F64(0), kf.process_noise_q)
        /\ F64Less(F64(0), kf.nis_ema)

\* C30: an update sets nis_ema to (1 - alpha) * nis_ema + alpha * y^2 / S and
\* scales q by the new value: q rises exactly when eta > 0 and the new
\* nis_ema is above 1, falls exactly when eta > 0 and it is below 1, and stays
\* exactly when eta = 0 or it is 1.
C30_AdaptationFollowsNewEma ==
    qx.updates > 0 =>
        LET alpha == kf.nis_ema_alpha
            eta == kf.adaptation_rate_eta
            q == qx.before.process_noise_q
        IN /\ kf.nis_ema = F64Add(F64Mul(F64Sub(F64(1), alpha), qx.before.nis_ema),
                                  F64Mul(alpha, F64Div(F64Mul(LastY, LastY), LastS)))
           /\ F64Less(q, kf.process_noise_q)
                  <=> (F64Less(F64(0), eta) /\ F64Less(F64(1), kf.nis_ema))
           /\ F64Less(kf.process_noise_q, q)
                  <=> (F64Less(F64(0), eta) /\ F64Less(kf.nis_ema, F64(1)))
           /\ kf.process_noise_q = q
                  <=> (eta = F64(0) \/ kf.nis_ema = F64(1))

(***************************************************************************)
(* Claims about the scope of the clock mutex, checked under SpecClock.  A  *)
(* thread at "idle" is outside its clock call: there it sleeps, sends and  *)
(* receives on the socket and the channel, and writes to the terminal.     *)
(***************************************************************************)
\* C24: the mutex is owned only by a thread inside one now() or one
\* apply_offset(), never by a thread outside its clock call; the owner can
\* always take its next step, and while the sampler is outside its clock
\* call the orchestrator waiting for the mutex can take it.
C24_LockScope ==
    /\ \A t \in Threads :
          /\ lock = t => (cpc[t] \in InsideClock /\ ENABLED ClockStep(t))
          /\ cpc[t] \in InsideClock => lock = t
    /\ (cpc["sampler"] = "idle" /\ cpc["orch"] \in {"lock_now", "lock_apply"})
          => ENABLED Acquire("orch")

\* C24 witness: the sampler is outside its clock call after a now() has
\* returned, and the orchestrator, which waited for the mutex, is inside an
\* apply_offset().
C24_Witness ==
    /\ cpc["sampler"] = "idle"
    /\ cghost.reads # <<>>
    /\ lock = "orch" /\ cpc["orch"] = "apply_23"

(***************************************************************************)
(* Claims about the order of queries and corrections, checked under Spec.  *)
(***************************************************************************)
\* C25: a query reads its T1 and sends its request only when no Success
\* message of an earlier query is still queued in the channel.
C25_T1AfterEarlierSamplesApplied ==
    [][(spc = "s_send" /\ spc' = "s_recv") =>
           \A i \in DOMAIN chan : chan[i].type # "Success"]_vars

\* C26: the sample of a query is computed with T4 = T1 + (m_recv - m_send),
\* the two monotonic stamps of the query: it is the same whatever
\* apply_offset did to the program clock between the reading of T1 and the
\* receive.
C26_T4FromMonotonicStamps ==
    hist.last_exchange # <<>> =>
        LET x == hist.last_exchange
        IN x.sample = OffsetDelay(x.t1, ToSystemTime(x.reply.t2).val,
                                  ToSystemTime(x.reply.t3).val,
                                  x.t1 + (x.recv_instant - x.send_instant))

\* C26 witness: a query returned a sample although the orchestrator had
\* corrected the clock after T1 was read, so that a new reading of the clock
\* at the receive differed from T4.
C26_Witness ==
    /\ hist.last_exchange # <<>>
    /\ hist.applied # 0
    /\ hist.last_exchange.reread
           # hist.last_exchange.t1
               + (hist.last_exchange.recv_instant - hist.last_exchange.send_instant)

(***************************************************************************)
(* Claims about handle_sync_message, checked under Spec.                   *)
(***************************************************************************)
\* C27: handling Syncing leaves the filter and the clock as they were;
\* handling Success(o, d), its conversions without error, leaves the filter
\* as one update with measurement o seconds and R = d seconds *
\* delay_to_r_factor leaves it, and the clock as one apply_offset of the
\* offset that update returned leaves it.
C27_HandlerEffect ==
    [][(opc = "ui_recv" /\ opc' # "ui_recv" /\ chan # <<>>) =>
         LET message == Head(chan)
             o == DurationToSecs(message.offset)
             d == DurationToSecs(message.delay)
             updated == KalmanUpdate(kf, o.val,
                                     F64Mul(d.val, KalmanConfig.delay_to_r_factor), mono)
             smoothed == SmoothedToDuration(updated.x_hat[1])
         IN IF message.type = "Syncing"
            THEN kf' = kf /\ current_utc' = current_utc
                          /\ last_updated_at' = last_updated_at
            ELSE (o.ok /\ d.ok /\ smoothed.ok) =>
                    /\ kf' = updated
                    /\ current_utc' = ClockNow(mono) + smoothed.val
                    /\ last_updated_at' = mono'
                    /\ hist'.applied = hist.applied + smoothed.val]_vars

\* C27 witness: the orchestrator has handled a Success message and applied
\* an offset other than the one the message measured.
C27_Witness ==
    /\ hist.nrecvd > 0
    /\ hist.recvd[2].type = "Success"
    /\ hist.applied # 0
    /\ hist.applied # hist.recvd[2].offset
    /\ opc \in LoopPcs

(***************************************************************************)
(* Claims about the conversion of a sample, checked under SpecHandle.      *)
(***************************************************************************)
\* C28: when the offset or the delay of a Success message is more than 2^53
\* microseconds in magnitude, or more than an i64 of microseconds, handling
\* it ends with an error of the sample and leaves the filter and the clock
\* as they were; every Duration of up to 2^53 microseconds converts, to its
\* count of microseconds over MicrosPerSec, with its sign.
C28_ConversionChecksRange ==
    [][(opc = "ui_recv" /\ opc' # "ui_recv" /\ chan # <<>>
            /\ Head(chan).type = "Success") =>
         LET o == Head(chan).offset
             d == Head(chan).delay
             TooLarge(x) == Abs(x) >= PastF64 \/ Abs(x) >= PastI64
             Micros(x) == IF x >= 0 THEN x \div NanosPerMicro
                          ELSE -((-x) \div NanosPerMicro)
         IN /\ (TooLarge(o) \/ TooLarge(d)) =>
                  /\ kf' = kf
                  /\ current_utc' = current_utc /\ last_updated_at' = last_updated_at
                  /\ opc' = "exit_err" /\ hist'.sample_failed
            /\ \A x \in {o, d} :
                  ~TooLarge(x) =>
                     /\ DurationToSecs(x).ok
                     /\ DurationToSecs(x).val = Rat(Micros(x), MicrosPerSec)
                     /\ (Micros(x) < 0) = F64Less(DurationToSecs(x).val, F64(0))
                     /\ (Micros(x) > 0) = F64Less(F64(0), DurationToSecs(x).val)
            /\ (~TooLarge(o) /\ ~TooLarge(d)) => kf' # kf]_vars

\* C28 witness: a Success message whose offset is the first Duration past
\* -2^53 microseconds, its delay convertible, was handled and ended the
\* loop with the error of the sample, the filter and the clock untouched.
C28_Witness ==
    /\ hist.nrecvd = 1
    /\ hist.recvd[2] = Success(-PastF64, NanosPerMicro)
    /\ hist.sample_failed /\ opc = "exit_err"
    /\ kf.last_timestamp = MaxMono /\ kf.x_hat[1] = F64(0)
    /\ current_utc = InitialUtc /\ last_updated_at = 0

(***************************************************************************)
(* Claims about the sampler and its configuration, checked under           *)
(* SpecSampler.                                                            *)
(***************************************************************************)
\* C31: every sleep of the sampler lasts between sync_interval_min_secs and
\* sync_interval_max_secs of the configuration it was started with, every
\* server of a Syncing message is in the configured list, and every query
\* of the sampler is given the configured sync timeout.
C31_SamplerFollowsConfig ==
    /\ spc = "s_sleep" =>
          sloc.interval \in qx.sync_interval_min_secs..qx.sync_interval_max_secs
    /\ \A i \in DOMAIN chan :
          chan[i].type = "Syncing" => chan[i].server \in qx.servers
    /\ spc = "s_recv" => SyncTimeoutMillis = qx.sync_timeout_millis

(***************************************************************************)
(* Claims about the samples the orchestrator gives the filter, checked     *)
(* under Spec.                                                             *)
(***************************************************************************)
\* C32: for every Success message whose offset and delay convert, the R
\* given to update is not negative, the S = P_pred[0][0] + R of that update
\* is above zero, and the filter's state after it is finite.
C32_NoiseAndInnovationVariance ==
    [][(opc = "ui_recv" /\ opc' # "ui_recv" /\ chan # <<>>
            /\ Head(chan).type = "Success"
            /\ DurationToSecs(Head(chan).offset).ok
            /\ DurationToSecs(Head(chan).delay).ok) =>
         LET r == F64Mul(DurationToSecs(Head(chan).delay).val,
                         KalmanConfig.delay_to_r_factor)
             predicted == Predict(kf, Rat(Elapsed(kf.last_timestamp, mono), TicksPerSec))
             s == F64Add(predicted.p[1][1], r)
         IN /\ ~F64Less(r, F64(0))
            /\ F64Less(F64(0), s)
            /\ IsFinite(kf'.x_hat[1]) /\ IsFinite(kf'.x_hat[2])]_vars

=============================================================================
